---------------------------- MODULE Spec2Model ----------------------------
(***************************************************************************)
(* Model of the revenue simulator helpers of app.py (src/app.py 96-177):   *)
(* the two forward projections, the series scan, the two reverse solvers   *)
(* and the stream estimator.                                               *)
(*                                                                         *)
(* The helpers compute in Python floats, and so does the model: a float is *)
(* an IEEE 754 binary64 value, and every addition, subtraction,            *)
(* multiplication and division rounds its exact result to 53 bits as the   *)
(* hardware does.  0.7 + 0.1 is 0.7999999999999999 and 100.0 * 0.57 is     *)
(* 56.99999999999999, in the model as in the code, and the comparisons of  *)
(* the helpers see these values.  A result beyond the range of the doubles *)
(* is an infinity (1e200 * 1e200), a result below it a subnormal number or *)
(* a zero (1e-200 * 1e-150), and NaN comes out of inf - inf, inf * 0 and   *)
(* inf / inf and fails every comparison.  One operation is not computed    *)
(* bit for bit: the fractional power of required_growth_rate_to_reach is a *)
(* call of the C library with the rounded exponent 1.0 / n; the model      *)
(* computes the float nearest to that power and lets the call return it or *)
(* one of its two neighbours.                                              *)
(*                                                                         *)
(* The stream counts, the growth, the linear additions, the popularity and *)
(* the followers are Python ints of any size.  Where a helper converts one *)
(* to a float, by float() or by arithmetic with a float, an int of at      *)
(* least 2^1024 - 2^970 raises OverflowError; the model raises it at the   *)
(* line the code does.                                                     *)
(*                                                                         *)
(* The functions are pure.  The state is one call: the operation `op`, its *)
(* arguments `args`, the position `pc` ("call" before the body has run,    *)
(* "done" after) and the outcome `ret`.                                    *)
(*                                                                         *)
(* sync_revenue_defaults_from_selected_artist (src/app.py 180-206) works   *)
(* on st.session_state, the dictionary `session_state` that outlives the   *)
(* runs of the page.  The second specification, SpecSession, is the page:  *)
(* a move of a widget of the simulator stores its value and starts a run   *)
(* of the script, a change of the sidebar starts one, and a run that is    *)
(* under way (`pc` = "rerun") ends at st.stop() (389), is ended by the     *)
(* next move, or reaches the saving of the selection and the call of the   *)
(* synchronisation (459-468); `changes` counts the moves of the widgets.   *)
(***************************************************************************)
EXTENDS Integers, Sequences, FiniteSets, TLC

VARIABLES op, args, pc, ret, session_state, changes

vars == <<op, args, pc, ret, session_state, changes>>

-----------------------------------------------------------------------------
(* Bounds of the checked input space.                                      *)

MaxStreams == 2
MaxRateQ == 1
MaxGrowthK == 2
MaxAdd == 1
MaxMonths == 3
MaxDuration == 4
MaxTarget == 9
MaxPopularity == 102
MaxFollowerK == 80
MaxChanges == 2

-----------------------------------------------------------------------------
(* Integer helpers.                                                        *)

Abs(x) == IF x < 0 THEN 0 - x ELSE x

Max(a, b) == IF a >= b THEN a ELSE b

Min(a, b) == IF a <= b THEN a ELSE b

RECURSIVE IPow(_, _)
IPow(b, e) == IF e = 0 THEN 1 ELSE b * IPow(b, e - 1)

RECURSIVE Log2Floor(_)
Log2Floor(n) == IF n < 2 THEN 0 ELSE 1 + Log2Floor(n \div 2)

-----------------------------------------------------------------------------
(* Natural numbers of any size: the significands of the floats and the     *)
(* exact intermediate results of their operations.  A number is the        *)
(* sequence of its digits in base 2^LimbBits, lowest digit first, without  *)
(* leading zeros; zero is the empty sequence.                              *)

LimbBits == 14

Base == 16384

TwoTo == [k \in 0..LimbBits |-> IPow(2, k)]

Limb(a, i) == IF 1 <= i /\ i <= Len(a) THEN a[i] ELSE 0

RECURSIVE BTrim(_)
BTrim(a) == IF Len(a) > 0 /\ a[Len(a)] = 0 THEN BTrim(SubSeq(a, 1, Len(a) - 1)) ELSE a

RECURSIVE BOfInt(_)
BOfInt(n) == IF n = 0 THEN <<>> ELSE <<n % Base>> \o BOfInt(n \div Base)

\* The value of a number that is small enough for an integer of the model.
RECURSIVE BToInt(_)
BToInt(a) == IF Len(a) = 0 THEN 0 ELSE a[1] + (Base * BToInt(Tail(a)))

RECURSIVE BAddFrom(_, _, _, _)
BAddFrom(a, b, i, c) ==
    IF i > Len(a) /\ i > Len(b)
    THEN IF c = 0 THEN <<>> ELSE <<c>>
    ELSE LET s == Limb(a, i) + Limb(b, i) + c
         IN <<s % Base>> \o BAddFrom(a, b, i + 1, s \div Base)

BAdd(a, b) == BAddFrom(a, b, 1, 0)

\* a - b for a >= b; c is the borrow.
RECURSIVE BSubFrom(_, _, _, _)
BSubFrom(a, b, i, c) ==
    IF i > Len(a)
    THEN <<>>
    ELSE LET s == Limb(a, i) - Limb(b, i) - c
         IN IF s < 0
            THEN <<s + Base>> \o BSubFrom(a, b, i + 1, 1)
            ELSE <<s>> \o BSubFrom(a, b, i + 1, 0)

BSub(a, b) == BTrim(BSubFrom(a, b, 1, 0))

RECURSIVE BCmpFrom(_, _, _)
BCmpFrom(a, b, i) ==
    IF i = 0 THEN 0
    ELSE IF a[i] < b[i] THEN 0 - 1
    ELSE IF a[i] > b[i] THEN 1
    ELSE BCmpFrom(a, b, i - 1)

\* -1, 0 or 1 as a < b, a = b or a > b.
BCmp(a, b) ==
    IF Len(a) < Len(b) THEN 0 - 1
    ELSE IF Len(a) > Len(b) THEN 1
    ELSE BCmpFrom(a, b, Len(a))

\* The sum of the products a[i] * b[k - i + 1]: column k of the product.
RECURSIVE BColumn(_, _, _, _)
BColumn(a, b, k, i) ==
    IF i > Len(a) \/ i > k
    THEN 0
    ELSE (IF k - i + 1 <= Len(b) THEN a[i] * b[k - i + 1] ELSE 0)
            + BColumn(a, b, k, i + 1)

RECURSIVE BMulFrom(_, _, _, _)

\* Digit k of the product from the sum s of its column and the carry.
BMulCarry(a, b, k, s) == <<s % Base>> \o BMulFrom(a, b, k + 1, s \div Base)

BMulFrom(a, b, k, c) ==
    IF k > Len(a) + Len(b)
    THEN <<>>
    ELSE BMulCarry(a, b, k, BColumn(a, b, k, Max(1, k - Len(b) + 1)) + c)

BMul(a, b) ==
    IF Len(a) = 0 \/ Len(b) = 0 THEN <<>>
    ELSE IF Len(a) <= Len(b) THEN BTrim(BMulFrom(a, b, 1, 0))
    ELSE BTrim(BMulFrom(b, a, 1, 0))

BBitLen(a) == IF Len(a) = 0 THEN 0 ELSE LimbBits * (Len(a) - 1) + Log2Floor(a[Len(a)]) + 1

\* a * 2^k.
BShl(a, k) ==
    LET ls == k \div LimbBits
        bs == k % LimbBits
    IN IF Len(a) = 0
       THEN <<>>
       ELSE BTrim([j \in 1..(Len(a) + ls + 1) |->
                IF j <= ls
                THEN 0
                ELSE ((Limb(a, j - ls) * TwoTo[bs]) % Base)
                        + (Limb(a, j - ls - 1) \div TwoTo[LimbBits - bs])])

\* a \div 2^k.
BShr(a, k) ==
    LET ls == k \div LimbBits
        bs == k % LimbBits
    IN IF Len(a) <= ls
       THEN <<>>
       ELSE BTrim([j \in 1..(Len(a) - ls) |->
                (a[j + ls] \div TwoTo[bs])
                    + (Limb(a, j + ls + 1) % TwoTo[bs]) * TwoTo[LimbBits - bs]])

\* Bit i of a, bit 0 the lowest.
BBit(a, i) == (Limb(a, (i \div LimbBits) + 1) \div TwoTo[i % LimbBits]) % 2

\* The k lowest bits of a are all zero.
BLowZero(a, k) ==
    /\ \A j \in 1..Min(Len(a), k \div LimbBits) : a[j] = 0
    /\ Limb(a, (k \div LimbBits) + 1) % TwoTo[k % LimbBits] = 0

RECURSIVE LowZeroBits(_)
LowZeroBits(x) == IF x % 2 = 1 THEN 0 ELSE 1 + LowZeroBits(x \div 2)

\* The number of zero bits below the lowest set bit of a # 0.
RECURSIVE BTrailingZeros(_, _)
BTrailingZeros(a, i) == IF a[i] = 0 THEN LimbBits + BTrailingZeros(a, i + 1) ELSE LowZeroBits(a[i])

\* One digit of a long division: a \div b for a < b * Base, the highest
\* digit of b at least Base / 2.  The estimate from the two highest digits
\* is at most two too large.
BDigit(a, b) ==
    LET n == Len(b)
        est == Min(Base - 1, (Limb(a, n + 1) * Base + Limb(a, n)) \div b[n])
    IN IF BCmp(a, b) < 0 THEN 0
       ELSE IF BCmp(BMul(b, <<est>>), a) <= 0 THEN est
       ELSE IF BCmp(BMul(b, <<est - 1>>), a) <= 0 THEN est - 1
       ELSE est - 2

\* Long division from the highest digit of a down: <<quotient, remainder>>,
\* q the digits of the quotient found so far and r the remainder left by
\* them, which is below b.
RECURSIVE BDivModFrom(_, _, _, _, _)

\* The step for the digit d of the quotient: t is the remainder with digit
\* i of a brought down.
BDivModStep(a, b, i, q, t, d) ==
    IF d = 0
    THEN BDivModFrom(a, b, i - 1, <<0>> \o q, t)
    ELSE BDivModFrom(a, b, i - 1, <<d>> \o q, BSub(t, BMul(b, <<d>>)))

BDivModDown(a, b, i, q, t) == BDivModStep(a, b, i, q, t, BDigit(t, b))

BDivModFrom(a, b, i, q, r) ==
    IF i = 0
    THEN <<BTrim(q), Len(r) # 0>>
    ELSE BDivModDown(a, b, i, q, BTrim(<<a[i]>> \o r))

\* The digits by which b is shifted to bring its highest digit to Base / 2.
BNormShift(b) == (LimbBits - (BBitLen(b) % LimbBits)) % LimbBits

\* The division starts from the Len(b) - 1 highest digits of a, which are a
\* number below b.
BDivModNorm(a, b) ==
    IF Len(a) < Len(b)
    THEN <<<<>>, Len(a) # 0>>
    ELSE BDivModFrom(a, b, Len(a) - Len(b) + 1, <<>>,
                     SubSeq(a, Len(a) - Len(b) + 2, Len(a)))

\* <<a \div b, whether a % b is nonzero>>, for b # 0.
BDivMod(a, b) == BDivModNorm(BShl(a, BNormShift(b)), BShl(b, BNormShift(b)))

RECURSIVE BPow(_, _)
BPow(r, k) == IF k = 0 THEN <<1>> ELSE BMul(BPow(r, k - 1), r)

\* The integer n-th root by Newton's iteration from above.
RECURSIVE BRootFrom(_, _, _)

\* The iteration stops at the first iterate r2 that is not below r.
BRootNext(a, n, r, r2) == IF BCmp(r2, r) >= 0 THEN r ELSE BRootFrom(a, n, r2)

BRootFrom(a, n, r) ==
    BRootNext(a, n, r,
              BDivMod(BAdd(BMul(r, BOfInt(n - 1)),
                           BDivMod(a, BPow(r, n - 1))[1]),
                      BOfInt(n))[1])

BRoot(a, n) == IF n = 1 THEN a ELSE BRootFrom(a, n, BShl(<<1>>, (BBitLen(a) + n - 1) \div n))

-----------------------------------------------------------------------------
(* Python floats: IEEE 754 binary64.  A float is a record.  A finite       *)
(* number has kind "num", the sign neg, the odd significand m and the      *)
(* exponent e, its value being m * 2^e; the zeros have the empty           *)
(* significand, the exponent 0 and a sign, as 0.0 and -0.0 have.  The      *)
(* infinities have kind "inf" and a sign, and the one NaN has kind "nan".  *)
(* Every operation rounds its exact result to MantissaBits bits, to        *)
(* nearest and to even on a tie; a result of 2^MaxExponent or more is an   *)
(* infinity, and below 2^(MinExponent + MantissaBits - 1) the floats are   *)
(* the multiples of 2^MinExponent.                                         *)

MantissaBits == 53

MaxExponent == 1024

MinExponent == 0 - 1074

Num(neg, m, e) == [kind |-> "num", neg |-> neg, m |-> m, e |-> e]

Inf(neg) == [kind |-> "inf", neg |-> neg, m |-> <<>>, e |-> 0]

NaN == [kind |-> "nan", neg |-> FALSE, m |-> <<>>, e |-> 0]

FZero == Num(FALSE, <<>>, 0)

IsNaN(a) == a.kind = "nan"

IsInf(a) == a.kind = "inf"

IsZero(a) == a.kind = "num" /\ Len(a.m) = 0

\* The float of value n * 2^e, for n of at most MantissaBits bits and
\* e >= MinExponent.
Canon(neg, n, e) ==
    IF Len(n) = 0
    THEN Num(neg, <<>>, 0)
    ELSE Num(neg, BShr(n, BTrailingZeros(n, 1)), e + BTrailingZeros(n, 1))

\* The same, or the infinity when n * 2^e is 2^MaxExponent or more.
Finite(neg, n, e) ==
    IF BBitLen(n) + e > MaxExponent THEN Inf(neg) ELSE Canon(neg, n, e)

\* Dropping the sh lowest bits of n rounds up: the dropped part is above
\* one half of the last kept bit, or it is one half and that bit is odd.
RoundsUp(n, sh) ==
    /\ BBit(n, sh - 1) = 1
    /\ (~BLowZero(n, sh - 1) \/ BBit(n, sh) = 1)

\* The float nearest to n * 2^e: sh bits are dropped, those beyond
\* MantissaBits and those below 2^MinExponent.
Round(neg, n, e) ==
    LET sh == Max(BBitLen(n) - MantissaBits, MinExponent - e)
    IN IF sh <= 0 THEN Finite(neg, n, e)
       ELSE IF RoundsUp(n, sh) THEN Finite(neg, BAdd(BShr(n, sh), <<1>>), e + sh)
       ELSE Finite(neg, BShr(n, sh), e + sh)

\* A Python int is a record of kind "int" with the sign neg and the
\* magnitude m, a number of any size.  PyInt(i) is the int of value i.
PyInt(i) == [kind |-> "int", neg |-> i < 0, m |-> BOfInt(Abs(i))]

IsInt(v) == v.kind = "int"

\* The value of an int that is small enough for an integer of the model.
IntValue(v) == IF v.neg THEN 0 - BToInt(v.m) ELSE BToInt(v.m)

\* The float nearest to an int.
IntToFloat(v) == Round(v.neg, v.m, 0)

\* The conversion of the int v to a float raises OverflowError ("int too
\* large to convert to float"): the float nearest to v would be an infinity,
\* which is so from 2^1024 - 2^970 on.  The operators of an int and a float
\* (int * float, int / float) convert the int in the same way.
TooLarge(v) == IsInt(v) /\ IsInf(IntToFloat(v))

\* float(v) of an int that is not too large, or of a float.
float(v) == IF IsInt(v) THEN IntToFloat(v) ELSE v

\* The float literal of an integer value: 1.0, 100.0.
Lit(i) == IntToFloat(PyInt(i))

Zero == Lit(0)

One == Lit(1)

\* 100.0, the divisor of the percentages (lines 99, 133, 172, 175).
Hundred == Lit(100)

FNeg(a) == IF IsNaN(a) THEN a ELSE [a EXCEPT !.neg = ~a.neg]

FAbs(a) == [a EXCEPT !.neg = FALSE]

\* The order of the absolute values of two floats that are not NaN: -1, 0
\* or 1.
MagCmp(a, b) ==
    IF IsInf(a) THEN (IF IsInf(b) THEN 0 ELSE 1)
    ELSE IF IsInf(b) THEN 0 - 1
    ELSE IF Len(a.m) = 0 THEN (IF Len(b.m) = 0 THEN 0 ELSE 0 - 1)
    ELSE IF Len(b.m) = 0 THEN 1
    ELSE LET ta == BBitLen(a.m) + a.e
             tb == BBitLen(b.m) + b.e
             lo == Min(a.e, b.e)
         IN IF ta < tb THEN 0 - 1
            ELSE IF ta > tb THEN 1
            ELSE BCmp(BShl(a.m, a.e - lo), BShl(b.m, b.e - lo))

\* The order of two floats that are not NaN; 0.0 and -0.0 are equal.
FCmp(a, b) ==
    IF IsZero(a) /\ IsZero(b) THEN 0
    ELSE IF a.neg # b.neg
    THEN IF a.neg THEN 0 - 1 ELSE 1
    ELSE IF a.neg THEN MagCmp(b, a) ELSE MagCmp(a, b)

\* The comparisons of Python; every comparison with NaN is false.
Ordered(a, b) == ~IsNaN(a) /\ ~IsNaN(b)

FEq(a, b) == Ordered(a, b) /\ FCmp(a, b) = 0

FLe(a, b) == Ordered(a, b) /\ FCmp(a, b) <= 0

FLt(a, b) == Ordered(a, b) /\ FCmp(a, b) < 0

FGe(a, b) == Ordered(a, b) /\ FCmp(a, b) >= 0

FGt(a, b) == Ordered(a, b) /\ FCmp(a, b) > 0

\* max(a, b) of Python: b only when it is greater.
FMax(a, b) == IF FGt(b, a) THEN b ELSE a

\* The sum of two finite floats that are not zero, from their significands
\* x and y at the common exponent lo.
FAddAt(a, b, x, y, lo) ==
    IF a.neg = b.neg THEN Round(a.neg, BAdd(x, y), lo)
    ELSE IF BCmp(x, y) = 0 THEN FZero
    ELSE IF BCmp(x, y) > 0 THEN Round(a.neg, BSub(x, y), lo)
    ELSE Round(b.neg, BSub(y, x), lo)

\* b is below a quarter of the unit in the last place of a and of the
\* floats next to a, so that a + b and a - b round to a.
Negligible(b, a) == BBitLen(b.m) + b.e + MantissaBits + 3 <= BBitLen(a.m) + a.e

FAdd(a, b) ==
    IF IsNaN(a) \/ IsNaN(b) THEN NaN
    ELSE IF IsInf(a) THEN (IF IsInf(b) /\ a.neg # b.neg THEN NaN ELSE a)
    ELSE IF IsInf(b) THEN b
    ELSE IF IsZero(a) /\ IsZero(b) THEN Num(a.neg /\ b.neg, <<>>, 0)
    ELSE IF IsZero(a) THEN b
    ELSE IF IsZero(b) \/ Negligible(b, a) THEN a
    ELSE IF Negligible(a, b) THEN b
    ELSE FAddAt(a, b, BShl(a.m, a.e - Min(a.e, b.e)),
                BShl(b.m, b.e - Min(a.e, b.e)), Min(a.e, b.e))

FSub(a, b) == FAdd(a, FNeg(b))

FMul(a, b) ==
    IF IsNaN(a) \/ IsNaN(b) THEN NaN
    ELSE IF IsInf(a) \/ IsInf(b)
    THEN (IF IsZero(a) \/ IsZero(b) THEN NaN ELSE Inf(a.neg # b.neg))
    ELSE IF IsZero(a) \/ IsZero(b) THEN Num(a.neg # b.neg, <<>>, 0)
    ELSE Round(a.neg # b.neg, BMul(a.m, b.m), a.e + b.e)

\* The float nearest to a number of which q holds the leading bits, at
\* least MantissaBits + 2 of them, with unit 2^e: a bit below q tells
\* whether the number is q itself (`inexact` false) or above it.
RoundSticky(neg, q, inexact, e) ==
    Round(neg, BAdd(BShl(q, 1), IF inexact THEN <<1>> ELSE <<>>), e - 1)

FDivRound(neg, qr, e) == RoundSticky(neg, qr[1], qr[2], e)

\* a / b for b that is not zero (Python raises ZeroDivisionError for a zero
\* divisor), from the quotient of the significands to MantissaBits + 2
\* bits.
FDiv(a, b) ==
    IF IsNaN(a) \/ IsNaN(b) THEN NaN
    ELSE IF IsInf(a) THEN (IF IsInf(b) THEN NaN ELSE Inf(a.neg # b.neg))
    ELSE IF IsInf(b) \/ IsZero(a) THEN Num(a.neg # b.neg, <<>>, 0)
    ELSE LET k == Max(0, MantissaBits + 2 + BBitLen(b.m) - BBitLen(a.m))
         IN FDivRound(a.neg # b.neg, BDivMod(BShl(a.m, k), b.m), a.e - b.e - k)

\* The float of the decimal literal n/d, d a power of ten: both n and d are
\* floats without error, so their float quotient is the nearest float.
Decimal(n, d) == FDiv(Lit(n), Lit(d))

\* The exponent of the unit in the last place of a finite x # 0.
UlpExp(x) == Max(x.e - (MantissaBits - BBitLen(x.m)), MinExponent)

\* The floats next to a finite x # 0, towards zero and away from it.  Below
\* a power of two the floats are twice as dense.
FPred(x) ==
    IF x.m = <<1>> /\ x.e - MantissaBits >= MinExponent
    THEN Canon(x.neg, BSub(BShl(<<1>>, MantissaBits), <<1>>), x.e - MantissaBits)
    ELSE Canon(x.neg, BSub(BShl(x.m, x.e - UlpExp(x)), <<1>>), UlpExp(x))

FSucc(x) == Finite(x.neg, BAdd(BShl(x.m, x.e - UlpExp(x)), <<1>>), UlpExp(x))

-----------------------------------------------------------------------------
(* The power x ** (1.0 / n) of the growth solver.  The exponent is the     *)
(* float y nearest to 1/n, so the power is not the n-th root of x: with    *)
(* 1/n - y = rho / (n * 2^s),                                              *)
(*     x ** y = root * exp(- rho * ln(x) / (n * 2^s)),                     *)
(* which differs from the root by several units in the last place when     *)
(* ln(x) is large.  The root is computed to GuardBits bits more than a     *)
(* float holds and corrected by the first-order term of the exponential;   *)
(* the next term is below 2^-90 of the result.                             *)

GuardBits == 10

LnBits == 14

\* ln(2) in units of 2^-LnBits.
Ln2 == 11357

\* t/1 + t*z2/3 + t*z2^2/5 + ... in units of 2^-LnBits, from term k on.
RECURSIVE AtanhSeries(_, _, _)
AtanhSeries(t, z2, k) ==
    IF t = 0 THEN 0
    ELSE (t \div ((2 * k) + 1)) + AtanhSeries((t * z2) \div TwoTo[LnBits], z2, k + 1)

\* 2 * atanh(z) in units of 2^-LnBits.
LnOfRatio(z) == 2 * AtanhSeries(z, (z * z) \div TwoTo[LnBits], 0)

\* ln(f / 2^LnBits) for 2^LnBits <= f < 2^(LnBits + 1): 2 * atanh(z) with
\* z = (f - 2^LnBits) / (f + 2^LnBits).
LnOfLeading(f) == LnOfRatio(((f - TwoTo[LnBits]) * TwoTo[LnBits]) \div (f + TwoTo[LnBits]))

\* ln(x) in units of 2^-LnBits for a finite x > 0, from the exponent of x
\* and the LnBits + 1 leading bits of its significand.
Ln(x) ==
    ((x.e + BBitLen(x.m) - 1) * Ln2)
        + LnOfLeading(BToInt(BShr(BShl(x.m, LnBits + 1), BBitLen(x.m))))

\* rho for the float y nearest to 1/n: 1/n - y = rho / (n * 2^s), where
\* y = y.m * 2^(-s).
Rho(y, n) ==
    IF BCmp(BShl(<<1>>, 0 - y.e), BMul(y.m, BOfInt(n))) >= 0
    THEN BToInt(BSub(BShl(<<1>>, 0 - y.e), BMul(y.m, BOfInt(n))))
    ELSE 0 - BToInt(BSub(BMul(y.m, BOfInt(n)), BShl(<<1>>, 0 - y.e)))

\* r * |rho * ln| / (n * 2^(s + LnBits)): the size of the first-order term.
PowTerm(r, n, rho, ln, s) ==
    BDivMod(BShr(BMul(BMul(r, BOfInt(Abs(rho))), BOfInt(Abs(ln))), s + LnBits),
            BOfInt(n))[1]

\* The root r corrected by the term c, which lowers the power when rho and
\* ln(x) have the same sign.
PowCorrect(r, c, lowers, e) ==
    RoundSticky(FALSE, IF lowers THEN BSub(r, c) ELSE BAdd(r, c), TRUE, e)

PowFrom(r, n, e, rho, ln, s) ==
    PowCorrect(r, PowTerm(r, n, rho, ln, s), (rho > 0) = (ln > 0), e)

PowOf(a, n, e, y, ln) == PowFrom(BRoot(a, n), n, e, Rho(y, n), ln, 0 - y.e)

PowShift(x, n) ==
    LET t0 == Max(0, ((MantissaBits + GuardBits) * n) - BBitLen(x.m))
    IN t0 + ((x.e - t0) % n)

\* The float nearest to x ** y for a finite x > 0 and the float y nearest
\* to 1/n, n >= 2.
FPow(x, n) ==
    PowOf(BShl(x.m, PowShift(x, n)), n, (x.e - PowShift(x, n)) \div n,
          FDiv(One, Lit(n)), Ln(x))

-----------------------------------------------------------------------------
(* Python values: None, exceptions, DataFrame.                             *)

None(z) == [some |-> FALSE, v |-> z]

Some(x) == [some |-> TRUE, v |-> x]

Return(x) == [exc |-> "none", v |-> x]

Raise(e, z) == [exc |-> e, v |-> z]

Pending == [exc |-> "pending"]

\* pd.DataFrame(list of dicts): the columns are the keys of the dicts, so a
\* frame built from the empty list has no column at all.
DataFrame(data) ==
    [columns |-> IF Len(data) = 0 THEN {} ELSE {"Month", "Revenue"},
     rows    |-> data]

-----------------------------------------------------------------------------
(* Forward projector.                                                      *)
(* The parameters are Python values, ints or floats; float() converts them *)
(* where the code does, and an int that is too large raises OverflowError  *)
(* there.  The rates are converted inside the loop, so only when a month   *)
(* is projected.                                                           *)

RECURSIVE CompoundLoop(_, _, _, _, _, _, _, _)
CompoundLoop(m, months, cs, cy, spotify_rate, youtube_rate, g, data) ==
    IF m > months
    THEN Return(DataFrame(data))
    ELSE IF TooLarge(spotify_rate) \/ TooLarge(youtube_rate)
    THEN Raise("OverflowError", DataFrame(<<>>))
    ELSE LET rev == FAdd(FMul(cs, float(spotify_rate)),
                         FMul(cy, float(youtube_rate)))
         IN  CompoundLoop(m + 1, months, FMul(cs, g), FMul(cy, g),
                          spotify_rate, youtube_rate, g,
                          Append(data, [Month |-> m, Revenue |-> rev]))

\* Mutant: the growth factor is 1 - pct/100.
revenue_forecast_compound_shrink(spotify_streams, youtube_streams, spotify_rate, youtube_rate, growth_rate_pct, months) ==
    IF TooLarge(spotify_streams) \/ TooLarge(youtube_streams)
         \/ TooLarge(growth_rate_pct)
    THEN Raise("OverflowError", DataFrame(<<>>))
    ELSE LET g == FSub(One, FDiv(float(growth_rate_pct), Hundred))
         IN  CompoundLoop(1, months, float(spotify_streams),
                          float(youtube_streams), spotify_rate, youtube_rate,
                          g, <<>>)

\* Lines 98-100 convert the streams and the growth before the loop, also
\* when months <= 0 and no month is projected.
revenue_forecast_compound(spotify_streams, youtube_streams, spotify_rate, youtube_rate, growth_rate_pct, months) ==
    IF TooLarge(spotify_streams) \/ TooLarge(youtube_streams)
         \/ TooLarge(growth_rate_pct)
    THEN Raise("OverflowError", DataFrame(<<>>))
    ELSE LET cs == float(spotify_streams)
             cy == float(youtube_streams)
             g  == FAdd(One, FDiv(float(growth_rate_pct), Hundred))
         IN  CompoundLoop(1, months, cs, cy, spotify_rate, youtube_rate,
                          g, <<>>)

\* Mutant: the YouTube streams grow by the Spotify addition.
RECURSIVE LinearLoop_copied(_, _, _, _, _, _, _, _, _)
LinearLoop_copied(m, months, cs, cy, spotify_rate, youtube_rate, linear_add_spotify, linear_add_youtube, data) ==
    IF m > months
    THEN Return(DataFrame(data))
    ELSE IF TooLarge(spotify_rate) \/ TooLarge(youtube_rate)
              \/ TooLarge(linear_add_spotify) \/ TooLarge(linear_add_youtube)
    THEN Raise("OverflowError", DataFrame(<<>>))
    ELSE LET rev == FAdd(FMul(cs, float(spotify_rate)),
                         FMul(cy, float(youtube_rate)))
         IN  LinearLoop_copied(m + 1, months,
                               FAdd(cs, float(linear_add_spotify)),
                               FAdd(cy, float(linear_add_spotify)),
                               spotify_rate, youtube_rate,
                               linear_add_spotify, linear_add_youtube,
                               Append(data, [Month |-> m, Revenue |-> rev]))

\* The rates and the additions are converted in the first month projected.
RECURSIVE LinearLoop(_, _, _, _, _, _, _, _, _)
LinearLoop(m, months, cs, cy, spotify_rate, youtube_rate, linear_add_spotify, linear_add_youtube, data) ==
    IF m > months
    THEN Return(DataFrame(data))
    ELSE IF TooLarge(spotify_rate) \/ TooLarge(youtube_rate)
              \/ TooLarge(linear_add_spotify) \/ TooLarge(linear_add_youtube)
    THEN Raise("OverflowError", DataFrame(<<>>))
    ELSE LET rev == FAdd(FMul(cs, float(spotify_rate)),
                         FMul(cy, float(youtube_rate)))
         IN  LinearLoop(m + 1, months,
                        FAdd(cs, float(linear_add_spotify)),
                        FAdd(cy, float(linear_add_youtube)),
                        spotify_rate, youtube_rate,
                        linear_add_spotify, linear_add_youtube,
                        Append(data, [Month |-> m, Revenue |-> rev]))

\* Mutant: the monthly addition is applied before the first point is emitted.
revenue_forecast_linear_pregrowth(spotify_streams, youtube_streams, spotify_rate, youtube_rate, linear_add_spotify, linear_add_youtube, months) ==
    IF TooLarge(spotify_streams) \/ TooLarge(youtube_streams)
         \/ TooLarge(linear_add_spotify) \/ TooLarge(linear_add_youtube)
    THEN Raise("OverflowError", DataFrame(<<>>))
    ELSE LinearLoop(1, months,
                    FAdd(float(spotify_streams), float(linear_add_spotify)),
                    FAdd(float(youtube_streams), float(linear_add_youtube)),
                    spotify_rate, youtube_rate,
                    linear_add_spotify, linear_add_youtube, <<>>)

revenue_forecast_linear(spotify_streams, youtube_streams, spotify_rate, youtube_rate, linear_add_spotify, linear_add_youtube, months) ==
    IF TooLarge(spotify_streams) \/ TooLarge(youtube_streams)
    THEN Raise("OverflowError", DataFrame(<<>>))
    ELSE LET cs == float(spotify_streams)
             cy == float(youtube_streams)
         IN  LinearLoop(1, months, cs, cy, spotify_rate, youtube_rate,
                        linear_add_spotify, linear_add_youtube, <<>>)

-----------------------------------------------------------------------------
(* Series analyzer.                                                        *)

\* Mutant: the comparison is strict, so a tie does not count as reached.
RECURSIVE ReachScan_strict(_, _, _)
ReachScan_strict(rows, i, target_monthly_income) ==
    IF i > Len(rows)
    THEN Return(None(0))
    ELSE IF TooLarge(rows[i].Revenue) \/ TooLarge(target_monthly_income)
    THEN Raise("OverflowError", None(0))
    ELSE IF FGt(float(rows[i].Revenue), float(target_monthly_income))
         THEN Return(Some(i))
         ELSE ReachScan_strict(rows, i + 1, target_monthly_income)

\* Both sides of the comparison are converted at every row.
RECURSIVE ReachScan(_, _, _)
ReachScan(rows, i, target_monthly_income) ==
    IF i > Len(rows)
    THEN Return(None(0))
    ELSE IF TooLarge(rows[i].Revenue) \/ TooLarge(target_monthly_income)
    THEN Raise("OverflowError", None(0))
    ELSE IF FGe(float(rows[i].Revenue), float(target_monthly_income))
         THEN Return(Some(i))
         ELSE ReachScan(rows, i + 1, target_monthly_income)

\* df["Revenue"] raises KeyError when the frame has no such column.
reach_month(df, target_monthly_income) ==
    IF "Revenue" \notin df.columns
    THEN Raise("KeyError", None(0))
    ELSE ReachScan(df.rows, 1, target_monthly_income)

-----------------------------------------------------------------------------
(* Reverse solver: required growth rate.                                   *)

\* The deviations of the C library's pow from the float nearest to the
\* power, in units of the last place.
PowUlps == {0 - 1, 0, 1}

\* The float nearest to the power, or the neighbour of it that `ulp` names.
PowResult(r, ulp) ==
    IF ulp < 0 THEN FPred(r)
    ELSE IF ulp > 0 THEN FSucc(r)
    ELSE r

\* x ** (1.0 / n) for a float x that is not negative and an int n >= 1.
\* The exponent 1.0 / 1 is 1.0 and the power is x itself; the powers of
\* NaN, infinity, 0.0 and 1.0 are exact.  Otherwise the library returns the
\* float nearest to x ** y or a neighbour of it.
pow(x, n, ulp) ==
    IF n = 1 \/ IsNaN(x) \/ IsInf(x) \/ x = One THEN x
    ELSE IF IsZero(x) THEN FZero
    ELSE PowResult(FPow(x, n), ulp)

NoRate(note) == [rate |-> None(Zero), note |-> Some(note)]

\* Mutant: the single-month check comes before the already-met check.
required_growth_rate_to_reach_month1first(r0, target, months, ulp) ==
    IF months <= 0
    THEN Return(NoRate("Invalid duration."))
    ELSE IF TooLarge(target)
    THEN Raise("OverflowError", NoRate(""))
    ELSE IF FLe(float(target), Zero)
    THEN Return(NoRate("Target is zero."))
    ELSE IF TooLarge(r0)
    THEN Raise("OverflowError", NoRate(""))
    ELSE IF FLe(float(r0), Zero)
    THEN Return(NoRate("Current revenue is zero."))
    ELSE IF months = 1
    THEN Return(NoRate("Duration is 1 month."))
    ELSE IF FGe(float(r0), float(target))
    THEN Return([rate |-> Some(Zero), note |-> None("")])
    ELSE LET g == FSub(pow(FDiv(float(target), float(r0)), months - 1, ulp),
                       One)
         IN  Return([rate |-> Some(FMax(Zero, FMul(g, Hundred))),
                     note |-> None("")])

\* Mutant: the root is taken over months periods instead of months - 1.
required_growth_rate_to_reach_months(r0, target, months, ulp) ==
    IF months <= 0
    THEN Return(NoRate("Invalid duration."))
    ELSE IF TooLarge(target)
    THEN Raise("OverflowError", NoRate(""))
    ELSE IF FLe(float(target), Zero)
    THEN Return(NoRate("Target is zero."))
    ELSE IF TooLarge(r0)
    THEN Raise("OverflowError", NoRate(""))
    ELSE IF FLe(float(r0), Zero)
    THEN Return(NoRate("Current revenue is zero."))
    ELSE IF FGe(float(r0), float(target))
    THEN Return([rate |-> Some(Zero), note |-> None("")])
    ELSE IF months = 1
    THEN Return(NoRate("Duration is 1 month."))
    ELSE LET g == FSub(pow(FDiv(float(target), float(r0)), months, ulp), One)
         IN  Return([rate |-> Some(FMax(Zero, FMul(g, Hundred))),
                     note |-> None("")])

\* Returns the pair (rate, note) of the code as a record; `ulp` is the
\* deviation of the call of pow.  float(target) is evaluated after the check
\* of months and float(r0) after the check of the target; a float division
\* by zero raises ZeroDivisionError.
required_growth_rate_to_reach(r0, target, months, ulp) ==
    IF months <= 0
    THEN Return(NoRate("Invalid duration."))
    ELSE IF TooLarge(target)
    THEN Raise("OverflowError", NoRate(""))
    ELSE IF FLe(float(target), Zero)
    THEN Return(NoRate("Target is zero."))
    ELSE IF TooLarge(r0)
    THEN Raise("OverflowError", NoRate(""))
    ELSE IF FLe(float(r0), Zero)
    THEN Return(NoRate("Current revenue is zero."))
    ELSE IF FGe(float(r0), float(target))
    THEN Return([rate |-> Some(Zero), note |-> None("")])
    ELSE IF months = 1
    THEN Return(NoRate("Duration is 1 month."))
    ELSE IF FEq(float(r0), Zero) \/ months - 1 = 0
    THEN Raise("ZeroDivisionError", NoRate(""))
    ELSE LET g == FSub(pow(FDiv(float(target), float(r0)), months - 1, ulp),
                       One)
         IN  Return([rate |-> Some(FMax(Zero, FMul(g, Hundred))),
                     note |-> None("")])

\* The page's current revenue, which it passes as r0: the product of an int
\* and a float converts the int.
monthly_total(spotify_streams, youtube_streams, spotify_rate, youtube_rate) ==
    FAdd(FMul(float(spotify_streams), float(spotify_rate)),
         FMul(float(youtube_streams), float(youtube_rate)))

-----------------------------------------------------------------------------
(* Reverse solver: required streams.                                       *)

NoRequirement ==
    [spotify_ratio |-> Zero, youtube_ratio |-> Zero, weighted_rate |-> Zero,
     required_total_streams |-> Zero, required_spotify_streams |-> Zero,
     required_youtube_streams |-> Zero]

\* Mutant: the YouTube requirement is scaled by the Spotify share.
reverse_required_streams_copied(spotify_streams, youtube_streams, spotify_rate, youtube_rate, target_monthly_income) ==
    IF TooLarge(spotify_streams) \/ TooLarge(youtube_streams)
         \/ TooLarge(spotify_rate) \/ TooLarge(youtube_rate)
    THEN Raise("OverflowError", None(NoRequirement))
    ELSE
    LET total_streams_now == FAdd(float(spotify_streams),
                                  float(youtube_streams))
        spotify_ratio == IF FGt(total_streams_now, Zero)
                         THEN FDiv(float(spotify_streams), total_streams_now)
                         ELSE Decimal(1, 2)
        youtube_ratio == IF FGt(total_streams_now, Zero)
                         THEN FDiv(float(youtube_streams), total_streams_now)
                         ELSE Decimal(1, 2)
        weighted_rate == FAdd(FMul(spotify_ratio, float(spotify_rate)),
                              FMul(youtube_ratio, float(youtube_rate)))
    IN  IF FLe(weighted_rate, Zero)
        THEN Return(None(NoRequirement))
        ELSE IF TooLarge(target_monthly_income)
        THEN Raise("OverflowError", None(NoRequirement))
        ELSE IF FEq(weighted_rate, Zero)
        THEN Raise("ZeroDivisionError", None(NoRequirement))
        ELSE LET required_total_streams ==
                     FDiv(float(target_monthly_income), weighted_rate)
             IN  Return(Some(
                   [spotify_ratio |-> spotify_ratio,
                    youtube_ratio |-> youtube_ratio,
                    weighted_rate |-> weighted_rate,
                    required_total_streams |-> required_total_streams,
                    required_spotify_streams |->
                        FMul(required_total_streams, spotify_ratio),
                    required_youtube_streams |->
                        FMul(required_total_streams, spotify_ratio)]))

\* Mutant: with no current streams the whole volume goes to Spotify.
reverse_required_streams_allspotify(spotify_streams, youtube_streams, spotify_rate, youtube_rate, target_monthly_income) ==
    IF TooLarge(spotify_streams) \/ TooLarge(youtube_streams)
         \/ TooLarge(spotify_rate) \/ TooLarge(youtube_rate)
    THEN Raise("OverflowError", None(NoRequirement))
    ELSE
    LET total_streams_now == FAdd(float(spotify_streams),
                                  float(youtube_streams))
        spotify_ratio == IF FGt(total_streams_now, Zero)
                         THEN FDiv(float(spotify_streams), total_streams_now)
                         ELSE One
        youtube_ratio == IF FGt(total_streams_now, Zero)
                         THEN FDiv(float(youtube_streams), total_streams_now)
                         ELSE Zero
        weighted_rate == FAdd(FMul(spotify_ratio, float(spotify_rate)),
                              FMul(youtube_ratio, float(youtube_rate)))
    IN  IF FLe(weighted_rate, Zero)
        THEN Return(None(NoRequirement))
        ELSE IF TooLarge(target_monthly_income)
        THEN Raise("OverflowError", None(NoRequirement))
        ELSE IF FEq(weighted_rate, Zero)
        THEN Raise("ZeroDivisionError", None(NoRequirement))
        ELSE LET required_total_streams ==
                     FDiv(float(target_monthly_income), weighted_rate)
             IN  Return(Some(
                   [spotify_ratio |-> spotify_ratio,
                    youtube_ratio |-> youtube_ratio,
                    weighted_rate |-> weighted_rate,
                    required_total_streams |-> required_total_streams,
                    required_spotify_streams |->
                        FMul(required_total_streams, spotify_ratio),
                    required_youtube_streams |->
                        FMul(required_total_streams, youtube_ratio)]))

\* Line 145 converts both stream counts, line 153 both rates and line 157
\* the target, which is reached only with a positive weighted rate.
reverse_required_streams(spotify_streams, youtube_streams, spotify_rate, youtube_rate, target_monthly_income) ==
    IF TooLarge(spotify_streams) \/ TooLarge(youtube_streams)
         \/ TooLarge(spotify_rate) \/ TooLarge(youtube_rate)
    THEN Raise("OverflowError", None(NoRequirement))
    ELSE
    LET total_streams_now == FAdd(float(spotify_streams),
                                  float(youtube_streams))
        spotify_ratio == IF FGt(total_streams_now, Zero)
                         THEN FDiv(float(spotify_streams), total_streams_now)
                         ELSE Decimal(1, 2)
        youtube_ratio == IF FGt(total_streams_now, Zero)
                         THEN FDiv(float(youtube_streams), total_streams_now)
                         ELSE Decimal(1, 2)
        weighted_rate == FAdd(FMul(spotify_ratio, float(spotify_rate)),
                              FMul(youtube_ratio, float(youtube_rate)))
    IN  IF FLe(weighted_rate, Zero)
        THEN Return(None(NoRequirement))
        ELSE IF TooLarge(target_monthly_income)
        THEN Raise("OverflowError", None(NoRequirement))
        ELSE IF FEq(weighted_rate, Zero)
        THEN Raise("ZeroDivisionError", None(NoRequirement))
        ELSE LET required_total_streams ==
                     FDiv(float(target_monthly_income), weighted_rate)
             IN  Return(Some(
                   [spotify_ratio |-> spotify_ratio,
                    youtube_ratio |-> youtube_ratio,
                    weighted_rate |-> weighted_rate,
                    required_total_streams |-> required_total_streams,
                    required_spotify_streams |->
                        FMul(required_total_streams, spotify_ratio),
                    required_youtube_streams |->
                        FMul(required_total_streams, youtube_ratio)]))

-----------------------------------------------------------------------------
(* Estimator.                                                              *)
(* popularity and followers are Python ints of any size; the ratios and    *)
(* the two products are floats, and int() truncates a product towards      *)
(* zero.                                                                   *)

\* The order of two ints: -1, 0 or 1.
IntCmp(a, b) ==
    IF a.neg # b.neg THEN (IF a.neg THEN 0 - 1 ELSE 1)
    ELSE IF a.neg THEN BCmp(b.m, a.m)
    ELSE BCmp(a.m, b.m)

\* max(a, b) and min(a, b) of two ints.
IntMax(a, b) == IF IntCmp(b, a) > 0 THEN b ELSE a

IntMin(a, b) == IF IntCmp(b, a) < 0 THEN b ELSE a

\* The whole part of the absolute value of a finite float.
Trunc(x) == IF x.e >= 0 THEN BShl(x.m, x.e) ELSE BShr(x.m, 0 - x.e)

\* int(x) of a finite float: the fraction is dropped, 5163.75 gives 5163.
int(x) == [kind |-> "int", neg |-> x.neg /\ Len(Trunc(x)) # 0, m |-> Trunc(x)]

NoStreams == [spotify_streams |-> PyInt(0), youtube_streams |-> PyInt(0)]

\* The float literals of lines 172 and 175: 0.08, 0.10 and 0.40.
BaseRatioMin == Decimal(8, 100)

BaseRatioSpan == Decimal(10, 100)

YtRatioMin == Decimal(40, 100)

\* Lines 175-177 for the Spotify streams of line 173, at least 5000 and
\* below the range of the floats.
YoutubeFrom(spotify_streams, yt_ratio) ==
    Return([spotify_streams |-> spotify_streams,
            youtube_streams |->
                IntMax(PyInt(0), int(FMul(float(spotify_streams), yt_ratio)))])

\* Lines 172-177 for the clamped followers and share = popularity / 100.0.
\* followers * base_ratio is the product of an int and a float: the int is
\* converted, and one that is too large raises OverflowError.  The product
\* is at most 0.18 times the largest float, so int() is applied to a finite
\* value, and spotify_streams converts without overflow.
EstimateFrom(followers, share) ==
    LET base_ratio == FAdd(BaseRatioMin, FMul(share, BaseRatioSpan))
        yt_ratio == FAdd(YtRatioMin, FMul(share, YtRatioMin))
    IN  IF TooLarge(followers)
        THEN Raise("OverflowError", NoStreams)
        ELSE YoutubeFrom(
                 IntMax(PyInt(5000), int(FMul(float(followers), base_ratio))),
                 yt_ratio)

\* The clamped popularity is an int of 0..100 and popularity / 100.0 the
\* quotient of its float.
estimate_streams_from_artist(popularity_in, followers_in) ==
    LET followers == IntMax(PyInt(0), followers_in)
        popularity == IntMax(PyInt(0), IntMin(PyInt(100), popularity_in))
    IN  EstimateFrom(followers, FDiv(float(popularity), Hundred))

-----------------------------------------------------------------------------
(* Input spaces.                                                           *)
(* The helpers are called on their whole parameter space: integer stream   *)
(* counts, rates in steps of 0.3 (the page's default Spotify rate is       *)
(* 0.30), growth in steps of 5 percent, and durations and targets that     *)
(* include zero and negative values (the page's widgets give only months   *)
(* >= 1 and targets >= 0).  The targets are in tenths.  The floats 0.3 and *)
(* the tenths are not the decimal numbers they are written as, and the     *)
(* products and sums of the helpers round: 3 * 0.3 is 0.8999999999999999,  *)
(* below the target 0.9.  These values are of the size the page's widgets  *)
(* give, far from the overflow and underflow thresholds of the floats.  A  *)
(* Python int has any size: the stream counts and the followers include    *)
(* Huge, an int that no float holds.                                       *)

\* 2^1024, the least power of two beyond the floats.
Huge == [kind |-> "int", neg |-> FALSE, m |-> BShl(<<1>>, MaxExponent)]

\* The stream counts of ordinary size.
StreamCounts == {PyInt(i) : i \in 0..MaxStreams}

StreamValues == StreamCounts \cup {Huge}

RateValues == {Decimal(3 * q, 10) : q \in 0..MaxRateQ}

GrowthValues == {PyInt(5 * k) : k \in (0 - 1)..MaxGrowthK}

AddValues == {PyInt(i) : i \in 0..MaxAdd}

MonthValues == (0 - 1)..MaxMonths

DurationValues == (0 - 1)..MaxDuration

TargetValues == {Decimal(t, 10) : t \in (0 - 1)..MaxTarget}

\* The current revenues the page passes as r0 (lines 583-588).
RevenueValues ==
    {monthly_total(s, y, rs, ry) :
        s \in StreamCounts, y \in StreamCounts,
        rs \in RateValues, ry \in RateValues}

CompoundArgs ==
    [spotify_streams : StreamValues, youtube_streams : StreamValues,
     spotify_rate : RateValues, youtube_rate : RateValues,
     growth_rate_pct : GrowthValues, months : MonthValues]

LinearArgs ==
    [spotify_streams : StreamValues, youtube_streams : StreamValues,
     spotify_rate : RateValues, youtube_rate : RateValues,
     linear_add_spotify : AddValues, linear_add_youtube : AddValues,
     months : MonthValues]

GrowthArgs ==
    [r0 : RevenueValues, target : TargetValues, months : DurationValues]

ReverseArgs ==
    [spotify_streams : StreamValues, youtube_streams : StreamValues,
     spotify_rate : RateValues, youtube_rate : RateValues,
     target_monthly_income : TargetValues]

PopularityValues == {PyInt(p) : p \in (0 - 2)..MaxPopularity}

\* Followers in steps of 2500, up to the default 200000 of line 192.
FollowerValues == {PyInt(2500 * k) : k \in (0 - 1)..MaxFollowerK} \cup {Huge}

EstimateArgs == [popularity : PopularityValues, followers : FollowerValues]

-----------------------------------------------------------------------------
(* The session state.                                                      *)
(* A Python dict is a function whose domain is the set of its keys.        *)

NewSession == [k \in {} |-> 0]

\* d.get(k, default)
get(d, k, default) == IF k \in DOMAIN d THEN d[k] ELSE default

\* d[k] = v
setitem(d, k, v) == [x \in (DOMAIN d) \cup {k} |-> IF x = k THEN v ELSE d[x]]

\* d.setdefault(k, v)
setdefault(d, k, v) == IF k \in DOMAIN d THEN d ELSE setitem(d, k, v)

\* round(n / d) of Python 3 for d > 0: to the nearest integer, a tie to the
\* even one.  A tie n / d = q + 1/2 is exact in the float, and so is decided
\* as in exact arithmetic.
round(n, d) ==
    LET q == n \div d
        r == n % d
    IN  IF 2 * r < d THEN q
        ELSE IF 2 * r > d THEN q + 1
        ELSE IF q % 2 = 0 THEN q ELSE q + 1

\* The defaults of lines 198-204, set in this order on a session `st` for
\* an artist of popularity `pop`.
SetDefaults(st, pop) ==
    LET s1 == setdefault(st, "spotify_rate", Decimal(30, 100))
        s2 == setdefault(s1, "youtube_rate", Decimal(20, 100))
        s3 == setdefault(s2, "growth_rate", Max(0, Min(50, round(pop, 10))))
        s4 == setdefault(s3, "months", 12)
        s5 == setdefault(s4, "linear_add_spotify", 0)
        s6 == setdefault(s5, "linear_add_youtube", 0)
    IN  setdefault(s6, "target_income", 100000)

\* The artists the page can end up with: the demo artist, an artist of the
\* API whose follower count is read anew on every run, and an artist for
\* which the API gives no popularity and no followers.
Artists ==
    {[id |-> "demo", popularity |-> 72, followers |-> 1234567],
     [id |-> "a1", popularity |-> 25, followers |-> 200000],
     [id |-> "a1", popularity |-> 25, followers |-> 200250],
     [id |-> "a2", popularity |-> 0, followers |-> 0]}

\* The popularity and the followers the synchronisation reads from the
\* selections of the model.
SelectedInputs == {<<artist.popularity, artist.followers>> : artist \in Artists}

\* The estimator is a pure function: its outcomes for the selections of the
\* model are computed once.
SelectedEstimates ==
    [pf \in SelectedInputs |->
         estimate_streams_from_artist(PyInt(pf[1]), PyInt(pf[2]))]

\* The call of line 198, estimate_streams_from_artist(pop, fol), on the
\* session's integers.
EstimateCall(pop, fol) ==
    IF <<pop, fol>> \in SelectedInputs
    THEN SelectedEstimates[<<pop, fol>>]
    ELSE estimate_streams_from_artist(PyInt(pop), PyInt(fol))

\* Lines 193-206 on the session `st` for the outcome `est` of the estimator.
\* The estimator is called before the first write, so an exception of it
\* leaves the session as it is.  The session holds its ints as integers.
SyncFrom(st, est, pop, artist_key) ==
    IF est.exc # "none"
    THEN st
    ELSE LET sp0 == IntValue(est.v.spotify_streams)
             yt0 == IntValue(est.v.youtube_streams)
             s1 == setitem(st, "spotify_streams", sp0)
             s2 == setitem(s1, "youtube_streams", yt0)
         IN  setitem(SetDefaults(s2, pop),
                     "_last_artist_key_for_revenue", artist_key)

\* Mutant: the streams are estimated again on every call, the last synced
\* key is not looked at.
sync_revenue_defaults_from_selected_artist_always(st) ==
    IF "selected_artist" \notin DOMAIN st
    THEN st
    ELSE LET sel == st["selected_artist"]
             artist_key == get(sel, "key", "")
             pop == get(sel, "popularity", 60)
             fol == get(sel, "followers", 200000)
         IN  IF artist_key = ""
             THEN st
             ELSE SyncFrom(st, EstimateCall(pop, fol), pop, artist_key)

\* The session state after sync_revenue_defaults_from_selected_artist() has
\* run on the session state `st`.  A missing selection, an empty selection
\* and a missing or empty key are falsy and make the function return.
sync_revenue_defaults_from_selected_artist(st) ==
    IF "selected_artist" \notin DOMAIN st
    THEN st
    ELSE LET sel == st["selected_artist"]
             artist_key == get(sel, "key", "")
             pop == get(sel, "popularity", 60)
             fol == get(sel, "followers", 200000)
         IN  IF DOMAIN sel = {} \/ artist_key = ""
             THEN st
             ELSE IF /\ "_last_artist_key_for_revenue" \in DOMAIN st
                     /\ st["_last_artist_key_for_revenue"] = artist_key
                  THEN st
                  ELSE SyncFrom(st, EstimateCall(pop, fol), pop, artist_key)

\* The "key" of the selection: f"{id}|{followers}|{popularity}".
ArtistKey(artist) ==
    artist.id \o "|" \o ToString(artist.followers) \o "|"
      \o ToString(artist.popularity)

\* The selection saved at lines 460-467.  The name, genres and image_url
\* are left out: the synchronisation does not read them.
Selection(artist) ==
    [popularity |-> artist.popularity, followers |-> artist.followers,
     key |-> ArtistKey(artist)]

\* The widgets of the simulator are bound to the session state by their
\* key; a widget moves in steps.
WidgetKeys ==
    {"spotify_streams", "youtube_streams", "growth_rate", "months",
     "linear_add_spotify", "linear_add_youtube", "spotify_rate",
     "youtube_rate", "target_income"}

RateKeys == {"spotify_rate", "youtube_rate"}

\* The step of the integer widgets; the rates move by 0.01.
WidgetStep(k) ==
    CASE k \in {"spotify_streams", "youtube_streams", "target_income"} -> 10000
      [] k \in {"linear_add_spotify", "linear_add_youtube"} -> 1000
      [] OTHER -> 1

\* The sliders have a range, the number inputs a minimum of 0.
InRange(k, w) ==
    CASE k = "growth_rate" -> 0 <= w /\ w <= 50
      [] k = "months" -> 1 <= w /\ w <= 24
      [] OTHER -> 0 <= w

\* The values one move of widget k, one step up or down, gives from v.
WidgetValues(k, v) ==
    IF k \in RateKeys
    THEN {w \in {FAdd(v, Decimal(1, 100)), FSub(v, Decimal(1, 100))} : FGe(w, Zero)}
    ELSE {w \in {v + WidgetStep(k), v - WidgetStep(k)} : InRange(k, w)}

\* The session states the synchronisation is called on from outside a run
\* of the page: a new session, and a selection whose key is empty.
SessionValues ==
    {NewSession,
     setitem(NewSession, "selected_artist",
             [popularity |-> 72, followers |-> 1234567, key |-> ""])}

-----------------------------------------------------------------------------
(* The calls.                                                              *)

Init ==
    /\ pc = "call"
    /\ ret = Pending
    /\ session_state = NewSession
    /\ changes = 0
    /\ \/ op = "revenue_forecast_compound" /\ args \in CompoundArgs
       \/ op = "revenue_forecast_linear" /\ args \in LinearArgs
       \/ op = "required_growth_rate_to_reach" /\ args \in GrowthArgs
       \/ op = "reverse_required_streams" /\ args \in ReverseArgs
       \/ op = "estimate_streams_from_artist" /\ args \in EstimateArgs

ForecastCompound ==
    /\ pc = "call"
    /\ op = "revenue_forecast_compound"
    /\ ret' = revenue_forecast_compound(
                  args.spotify_streams, args.youtube_streams,
                  args.spotify_rate, args.youtube_rate,
                  args.growth_rate_pct, args.months)
    /\ pc' = "done"
    /\ UNCHANGED <<op, args, session_state, changes>>

ForecastLinear ==
    /\ pc = "call"
    /\ op = "revenue_forecast_linear"
    /\ ret' = revenue_forecast_linear(
                  args.spotify_streams, args.youtube_streams,
                  args.spotify_rate, args.youtube_rate,
                  args.linear_add_spotify, args.linear_add_youtube,
                  args.months)
    /\ pc' = "done"
    /\ UNCHANGED <<op, args, session_state, changes>>

\* reach_month is applied to a series a projection returned.
ReachMonth ==
    /\ pc = "done"
    /\ op \in {"revenue_forecast_compound", "revenue_forecast_linear"}
    /\ ret.exc = "none"
    /\ \E t \in TargetValues :
          /\ op' = "reach_month"
          /\ args' = [df |-> ret.v, target_monthly_income |-> t,
                      months |-> args.months]
          /\ ret' = reach_month(ret.v, t)
    /\ pc' = "done"
    /\ UNCHANGED <<session_state, changes>>

\* The call of line 588; the library's pow returns one of the floats PowUlps
\* allows.
RequiredGrowth ==
    /\ pc = "call"
    /\ op = "required_growth_rate_to_reach"
    /\ \E ulp \in PowUlps :
          ret' = required_growth_rate_to_reach(args.r0, args.target,
                                               args.months, ulp)
    /\ pc' = "done"
    /\ UNCHANGED <<op, args, session_state, changes>>

ReverseRequired ==
    /\ pc = "call"
    /\ op = "reverse_required_streams"
    /\ ret' = reverse_required_streams(
                  args.spotify_streams, args.youtube_streams,
                  args.spotify_rate, args.youtube_rate,
                  args.target_monthly_income)
    /\ pc' = "done"
    /\ UNCHANGED <<op, args, session_state, changes>>

Estimate ==
    /\ pc = "call"
    /\ op = "estimate_streams_from_artist"
    /\ ret' = estimate_streams_from_artist(args.popularity, args.followers)
    /\ pc' = "done"
    /\ UNCHANGED <<op, args, session_state, changes>>

Next ==
    \/ ForecastCompound
    \/ ForecastLinear
    \/ ReachMonth
    \/ RequiredGrowth
    \/ ReverseRequired
    \/ Estimate

Spec == Init /\ [][Next]_vars

-----------------------------------------------------------------------------
(* The page.                                                               *)

\* A session starts with the first run of the script under way.
InitSession ==
    /\ op = "streamlit"
    /\ args = [key |-> "", value |-> 0, artist |-> ""]
    /\ pc = "rerun"
    /\ ret = Pending
    /\ session_state \in SessionValues
    /\ changes = 0

\* Lines 459-468 on the session state `st`: the selection is saved and the
\* synchronisation is called.  The widgets created after it find their keys
\* in the session state and leave it as it is.
Page(st, artist) ==
    sync_revenue_defaults_from_selected_artist(
        setitem(st, "selected_artist", Selection(artist)))

\* The user moves a widget of the simulator, which a run of the page has
\* created, by one step: Streamlit stores its value under its key and
\* starts a run of the script from the top.  A run that is under way, and
\* has not reached line 460, is ended by it.  A session has at most
\* MaxChanges such moves.
WidgetChange ==
    /\ changes < MaxChanges
    /\ \E k \in WidgetKeys \cap DOMAIN session_state :
          \E v \in WidgetValues(k, session_state[k]) :
              /\ session_state' = setitem(session_state, k, v)
              /\ op' = "widget"
              /\ args' = [key |-> k, value |-> v, artist |-> ""]
    /\ changes' = changes + 1
    /\ pc' = "rerun"
    /\ ret' = Pending

\* The user changes the sidebar (lines 346-350), whose widgets have no key:
\* nothing is stored and a run of the script starts.
SidebarChange ==
    /\ pc = "done"
    /\ op' = "sidebar"
    /\ args' = [key |-> "", value |-> 0, artist |-> ""]
    /\ pc' = "rerun"
    /\ ret' = Pending
    /\ UNCHANGED <<session_state, changes>>

\* The run under way ends at st.stop() (line 389): the artist field is
\* empty.  The selection is not saved and the synchronisation not called.
PageStop ==
    /\ pc = "rerun"
    /\ op' = "stop"
    /\ args' = [key |-> "", value |-> 0, artist |-> ""]
    /\ pc' = "done"
    /\ ret' = Pending
    /\ UNCHANGED <<session_state, changes>>

\* The run under way has passed the guard and the data fetch (lines
\* 383-457) and reaches line 460 with the artist they give.
PageRun ==
    /\ pc = "rerun"
    /\ \E artist \in Artists :
          /\ session_state' = Page(session_state, artist)
          /\ args' = [key |-> "", value |-> 0, artist |-> artist]
    /\ op' = "page"
    /\ pc' = "done"
    /\ ret' = Pending
    /\ UNCHANGED changes

\* A call of the synchronisation on the session state as it is.
Sync ==
    /\ session_state' =
           sync_revenue_defaults_from_selected_artist(session_state)
    /\ op' = "sync_revenue_defaults_from_selected_artist"
    /\ args' = [key |-> "", value |-> 0, artist |-> ""]
    /\ ret' = Return(None(0))
    /\ UNCHANGED <<pc, changes>>

NextSession ==
    \/ WidgetChange
    \/ SidebarChange
    \/ PageStop
    \/ PageRun
    \/ Sync

SpecSession == InitSession /\ [][NextSession]_vars

-----------------------------------------------------------------------------
(* Properties.                                                             *)

Forecasts == {"revenue_forecast_compound", "revenue_forecast_linear"}

\* A projection has been called and has ended.
ForecastCalled == pc = "done" /\ op \in Forecasts

\* A projection has returned its series.
ForecastDone == ForecastCalled /\ ret.exc = "none"

\* C1: for every input both projections return, without raising, a series
\* of exactly max(0, months) points; the i-th point carries month number i,
\* so the months are 1, 2, ..., months with no gap or repeat, and the series
\* is empty for months <= 0.
C1_SeriesLength ==
    ForecastCalled =>
        /\ ret.exc = "none"
        /\ Len(ret.v.rows) = Max(0, args.months)
        /\ \A i \in 1..Len(ret.v.rows) : ret.v.rows[i].Month = i

\* The series of a projection that has returned: max(0, months) points with
\* the month numbers 1, 2, ..., months.  A projection raises only in a
\* conversion.
SeriesOfReturn ==
    /\ ForecastDone =>
          /\ Len(ret.v.rows) = Max(0, args.months)
          /\ \A i \in 1..Len(ret.v.rows) : ret.v.rows[i].Month = i
    /\ (ForecastCalled /\ ret.exc # "none") =>
          /\ ret.exc = "OverflowError"
          /\ \E k \in DOMAIN args : k # "months" /\ TooLarge(args[k])

\* C2: for months >= 1, under both policies, the revenue of the first point
\* is initial spotify_streams * spotify_rate + initial youtube_streams *
\* youtube_rate, as the floats compute it: no growth is applied before the
\* month-1 point.
C2_MonthOneAnchor ==
    (ForecastDone /\ args.months >= 1) =>
        ret.v.rows[1].Revenue =
            FAdd(FMul(float(args.spotify_streams), args.spotify_rate),
                 FMul(float(args.youtube_streams), args.youtube_rate))

\* One Spotify stream at rate 0.3, one more each month: 0.3, then 0.6.
C2_Witness ==
    /\ ForecastDone
    /\ op = "revenue_forecast_linear"
    /\ args.months >= 2
    /\ args.linear_add_spotify = PyInt(1)
    /\ args.spotify_rate = Decimal(3, 10)
    /\ args.spotify_streams = PyInt(1)
    /\ args.youtube_streams = PyInt(0)
    /\ ret.v.rows[1].Revenue = Decimal(3, 10)
    /\ ret.v.rows[2].Revenue = Decimal(6, 10)

\* C3: when reach_month returns k, point k has month k and revenue >= target
\* and every earlier point has revenue < target; when it returns None, no
\* point of the series has revenue >= target.
C3_ReachConsistency ==
    (pc = "done" /\ op = "reach_month" /\ ret.exc = "none") =>
        LET rows == args.df.rows
            t == args.target_monthly_income
        IN  IF ret.v.some
            THEN /\ ret.v.v \in 1..Len(rows)
                 /\ rows[ret.v.v].Month = ret.v.v
                 /\ FGe(rows[ret.v.v].Revenue, t)
                 /\ \A j \in 1..(ret.v.v - 1) : FLt(rows[j].Revenue, t)
            ELSE \A j \in 1..Len(rows) : FLt(rows[j].Revenue, t)

\* A tie: the first point that reaches the target equals it, in month 2 or later.
C3_Witness ==
    /\ pc = "done"
    /\ op = "reach_month"
    /\ ret.exc = "none"
    /\ ret.v.some
    /\ ret.v.v >= 2
    /\ args.df.rows[ret.v.v].Revenue = args.target_monthly_income

GrowthDone == pc = "done" /\ op = "required_growth_rate_to_reach"

Fails(note) == ret = Return(NoRate(note))

Succeeds == ret.exc = "none" /\ ret.v.rate.some /\ ~ret.v.note.some

\* C4: required_growth_rate_to_reach decides in the order months <= 0,
\* target <= 0, current revenue <= 0, current revenue >= target, months = 1,
\* and the first condition that matches alone gives the outcome; every
\* successful result has rate >= 0.  The two literal cases of the
\* specification, (0, 1000, 12) and (1000, 1000, 12), are evaluated as well.
C4_DecisionOrder ==
    /\ GrowthDone =>
         LET m == args.months
             t == args.target
             r0 == args.r0
         IN  /\ m <= 0 => Fails("Invalid duration.")
             /\ (m > 0 /\ FLe(t, Zero)) => Fails("Target is zero.")
             /\ (m > 0 /\ FGt(t, Zero) /\ FLe(r0, Zero)) =>
                    Fails("Current revenue is zero.")
             /\ (m > 0 /\ FGt(t, Zero) /\ FGt(r0, Zero) /\ FGe(r0, t)) =>
                    (Succeeds /\ ret.v.rate.v = Zero)
             /\ (m = 1 /\ FGt(r0, Zero) /\ FLt(r0, t)) =>
                    Fails("Duration is 1 month.")
             /\ (m > 1 /\ FGt(r0, Zero) /\ FLt(r0, t)) => Succeeds
             /\ (ret.exc = "none" /\ ret.v.rate.some) =>
                    FGe(ret.v.rate.v, Zero)
    /\ \A ulp \in PowUlps :
         /\ required_growth_rate_to_reach(PyInt(0), PyInt(1000), 12, ulp)
              = Return(NoRate("Current revenue is zero."))
         /\ required_growth_rate_to_reach(PyInt(1000), PyInt(1000), 12, ulp)
              = Return([rate |-> Some(Zero), note |-> None("")])

\* Already met with a single month: rate 0, not the single-period failure.
C4_Witness ==
    /\ GrowthDone
    /\ args.months = 1
    /\ FGt(args.target, Zero)
    /\ FGt(args.r0, args.target)
    /\ Succeeds
    /\ ret.v.rate.v = Zero

\* The relative tolerance of the comparisons "within tolerance": 2^-40, some
\* thousand units in the last place of a float.
Tolerance == Num(FALSE, <<1>>, 0 - 40)

\* a and b differ by at most the tolerance, relative to `scale`.
Near(a, b, scale) == FLe(FAbs(FSub(a, b)), FMul(Tolerance, FAbs(scale)))

\* a and b are equal within the tolerance.
Close(a, b) == Near(a, b, FMax(FAbs(a), FAbs(b)))

\* The revenues of the compound projection that starts at revenue r0 in
\* month 1 (r0 streams at rate 1.0) and grows by rate_pct, up to the month
\* after `months`.
ProjectFrom(r0, rate_pct, months) == revenue_forecast_compound(r0, Zero, One, Zero, rate_pct, months + 1).v.rows

\* The growth of one period, rate_pct / 100, is more than twice the
\* tolerance.
Grows(rate_pct) == FGt(rate_pct, FMul(Lit(200), Tolerance))

\* C5 as stated: for months > 1 and 0 < r0 < target, the compound projection
\* that starts from r0 in month 1 and grows by the returned rate equals the
\* target within the tolerance at month = months, after months - 1 growth
\* periods, and not one period earlier or later: the revenues of the months
\* before and after do not equal the target within the tolerance.
C5_GrowthInversion_exact ==
    (GrowthDone /\ args.months > 1 /\ FGt(args.r0, Zero)
       /\ FLt(args.r0, args.target) /\ Succeeds) =>
        LET m == args.months
            t == args.target
            P == ProjectFrom(args.r0, ret.v.rate.v, m)
        IN  /\ P[1].Revenue = args.r0
            /\ Close(P[m].Revenue, t)
            /\ ~Close(P[m - 1].Revenue, t)
            /\ ~Close(P[m + 1].Revenue, t)

\* C5 (amended): for months > 1 and 0 < r0 < target, the compound projection
\* that starts from r0 in month 1 and grows by the returned rate equals the
\* target within the tolerance at month = months, after months - 1 growth
\* periods, and the revenues do not decrease; when the growth of one period
\* is more than twice the tolerance, the month before is below the target
\* and the month after above it, by more than the tolerance.
C5_GrowthInversion ==
    (GrowthDone /\ args.months > 1 /\ FGt(args.r0, Zero)
       /\ FLt(args.r0, args.target) /\ Succeeds) =>
        LET m == args.months
            t == args.target
            P == ProjectFrom(args.r0, ret.v.rate.v, m)
        IN  /\ P[1].Revenue = args.r0
            /\ Close(P[m].Revenue, t)
            /\ FLe(P[m - 1].Revenue, P[m].Revenue)
            /\ FLe(P[m].Revenue, P[m + 1].Revenue)
            /\ Grows(ret.v.rate.v) =>
                 /\ FLt(P[m - 1].Revenue, t) /\ ~Close(P[m - 1].Revenue, t)
                 /\ FGt(P[m + 1].Revenue, t) /\ ~Close(P[m + 1].Revenue, t)

\* Revenue 0.3 to target 0.9 in 3 months: the rate is 73.2 percent, the
\* square root of 3, and the projection comes to 0.8999999999999999 in month
\* 3, the float just below the target.
C5_Witness ==
    /\ GrowthDone
    /\ args.months = 3
    /\ args.r0 = Decimal(3, 10)
    /\ args.target = Decimal(9, 10)
    /\ Succeeds
    /\ FGt(ret.v.rate.v, Decimal(732, 10))
    /\ FLt(ret.v.rate.v, Decimal(733, 10))
    /\ ProjectFrom(args.r0, ret.v.rate.v, 3)[3].Revenue = FPred(Decimal(9, 10))

ReverseDone == pc = "done" /\ op = "reverse_required_streams"

TotalNow == FAdd(float(args.spotify_streams), float(args.youtube_streams))

\* C6 as stated: in every result of reverse_required_streams the required
\* volumes earn the target within the tolerance, their sum equals
\* required_total_streams, and they are in the proportion of the current
\* stream counts (required_spotify * youtube_now = required_youtube *
\* spotify_now).
C6_StreamsInversion_exact ==
    (ReverseDone /\ ret.exc = "none" /\ ret.v.some) =>
        LET r == ret.v.v
        IN  /\ Close(FAdd(FMul(r.required_spotify_streams, args.spotify_rate),
                          FMul(r.required_youtube_streams, args.youtube_rate)),
                     args.target_monthly_income)
            /\ FAdd(r.required_spotify_streams, r.required_youtube_streams)
                 = r.required_total_streams
            /\ FMul(r.required_spotify_streams, float(args.youtube_streams))
                 = FMul(r.required_youtube_streams,
                        float(args.spotify_streams))

\* C6 (amended): in every result of reverse_required_streams the required
\* volumes earn the target, their sum equals required_total_streams and they
\* are in the proportion of the current stream counts, each within the
\* tolerance: the floats round, and the sum of the two volumes need not be
\* the float required_total_streams.
C6_StreamsInversion ==
    (ReverseDone /\ ret.exc = "none" /\ ret.v.some) =>
        LET r == ret.v.v
        IN  /\ Close(FAdd(FMul(r.required_spotify_streams, args.spotify_rate),
                          FMul(r.required_youtube_streams, args.youtube_rate)),
                     args.target_monthly_income)
            /\ Close(FAdd(r.required_spotify_streams,
                          r.required_youtube_streams),
                     r.required_total_streams)
            /\ Close(FMul(r.required_spotify_streams,
                          float(args.youtube_streams)),
                     FMul(r.required_youtube_streams,
                          float(args.spotify_streams)))

\* Streams 1 and 2, only YouTube paid, at 0.3, target 0.1: the weighted rate
\* is 0.19999999999999998 and the total 0.5000000000000001, the float above
\* 0.5, while the two volumes add up to 0.5.
C6_Witness ==
    /\ ReverseDone
    /\ args.spotify_streams = PyInt(1)
    /\ args.youtube_streams = PyInt(2)
    /\ args.spotify_rate = Zero
    /\ args.youtube_rate = Decimal(3, 10)
    /\ args.target_monthly_income = Decimal(1, 10)
    /\ ret.v.some
    /\ ret.v.v.weighted_rate = FPred(Decimal(2, 10))
    /\ ret.v.v.required_total_streams = FSucc(Decimal(1, 2))
    /\ FAdd(ret.v.v.required_spotify_streams, ret.v.v.required_youtube_streams)
         = Decimal(1, 2)

\* C7: for non-negative streams and rates reverse_required_streams never
\* raises (no division by zero) and returns None exactly when the weighted
\* rate spotify_ratio * spotify_rate + youtube_ratio * youtube_rate is <= 0,
\* that is when no channel has both a share and a rate; otherwise it returns
\* a complete result, whose weighted rate is positive and whose total is the
\* target divided by it.
C7_NullIffNoRate ==
    ReverseDone =>
        LET spotify_ratio == IF FGt(TotalNow, Zero)
                             THEN FDiv(float(args.spotify_streams), TotalNow)
                             ELSE Decimal(1, 2)
            youtube_ratio == IF FGt(TotalNow, Zero)
                             THEN FDiv(float(args.youtube_streams), TotalNow)
                             ELSE Decimal(1, 2)
            weighted_rate == FAdd(FMul(spotify_ratio, args.spotify_rate),
                                  FMul(youtube_ratio, args.youtube_rate))
            unpaid == /\ FEq(spotify_ratio, Zero) \/ FEq(args.spotify_rate, Zero)
                      /\ FEq(youtube_ratio, Zero) \/ FEq(args.youtube_rate, Zero)
        IN  /\ ret.exc = "none"
            /\ ~ret.v.some <=> FLe(weighted_rate, Zero)
            /\ ~ret.v.some <=> unpaid
            /\ ret.v.some =>
                 /\ ret.v.v.weighted_rate = weighted_rate
                 /\ FGt(ret.v.v.weighted_rate, Zero)
                 /\ ret.v.v.required_total_streams
                      = FDiv(args.target_monthly_income, weighted_rate)

\* The outcome of a call that has not raised: None exactly when the
\* weighted rate is <= 0.  The call raises only in a conversion.
NullOfReturn ==
    /\ (ReverseDone /\ ret.exc = "none") =>
          (~ret.v.some <=>
             FLe(FAdd(FMul(IF FGt(TotalNow, Zero)
                           THEN FDiv(float(args.spotify_streams), TotalNow)
                           ELSE Decimal(1, 2), args.spotify_rate),
                      FMul(IF FGt(TotalNow, Zero)
                           THEN FDiv(float(args.youtube_streams), TotalNow)
                           ELSE Decimal(1, 2), args.youtube_rate)), Zero))
    /\ (ReverseDone /\ ret.exc # "none") =>
          /\ ret.exc = "OverflowError"
          /\ TooLarge(args.spotify_streams) \/ TooLarge(args.youtube_streams)

\* C8: in every result, for non-negative stream counts, spotify_ratio and
\* youtube_ratio lie in [0, 1] and sum to 1; both are exactly 0.5 when the
\* current total is 0, and otherwise each is its channel's streams divided
\* by the total.
C8_Ratios ==
    (ReverseDone /\ ret.exc = "none" /\ ret.v.some) =>
        LET r == ret.v.v
        IN  /\ FGe(r.spotify_ratio, Zero) /\ FLe(r.spotify_ratio, One)
            /\ FGe(r.youtube_ratio, Zero) /\ FLe(r.youtube_ratio, One)
            /\ FAdd(r.spotify_ratio, r.youtube_ratio) = One
            /\ IF TotalNow = Zero
               THEN r.spotify_ratio = Decimal(1, 2) /\ r.youtube_ratio = Decimal(1, 2)
               ELSE /\ r.spotify_ratio = FDiv(float(args.spotify_streams), TotalNow)
                    /\ r.youtube_ratio = FDiv(float(args.youtube_streams), TotalNow)

\* Streams 1 and 2: the ratios are the floats nearest to 1/3 and 2/3, and
\* their float sum is 1.
C8_Witness ==
    /\ ReverseDone
    /\ args.spotify_streams = PyInt(1)
    /\ args.youtube_streams = PyInt(2)
    /\ ret.v.some
    /\ ret.v.v.spotify_ratio = FDiv(Lit(1), Lit(3))
    /\ ret.v.v.youtube_ratio = FDiv(Lit(2), Lit(3))
    /\ FAdd(ret.v.v.spotify_ratio, ret.v.v.youtube_ratio) = One
    /\ FGt(args.target_monthly_income, Zero)

EstimateDone == pc = "done" /\ op = "estimate_streams_from_artist"

ClampedPopularity == Max(0, Min(100, IntValue(args.popularity)))

ClampedFollowers == Max(0, IntValue(args.followers))

\* The integers nearest to num / den (both neighbours at an exact half).
Nearest(num, den) ==
    LET fl == num \div den
    IN  IF 2 * (num % den) < den THEN {fl}
        ELSE IF 2 * (num % den) > den THEN {fl + 1}
        ELSE {fl, fl + 1}

\* C9: for all integer popularity and followers estimate_streams_from_artist
\* never fails and returns spotify_streams = max(5000, round(f *
\* base_ratio)) >= 5000 and youtube_streams = max(0, round(spotify_streams *
\* yt_ratio)) with round-to-nearest, p and f being the clamped popularity
\* and followers (base_ratio = (80 + p) / 1000, yt_ratio = (100 + p) / 250).
C9_RoundToNearest ==
    EstimateDone =>
        /\ ret.exc = "none"
        /\ IntValue(ret.v.spotify_streams) >= 5000
        /\ \E r \in Nearest(ClampedFollowers * (80 + ClampedPopularity), 1000) :
               IntValue(ret.v.spotify_streams) = Max(5000, r)
        /\ \E r \in Nearest(IntValue(ret.v.spotify_streams)
                                * (100 + ClampedPopularity), 250) :
               IntValue(ret.v.youtube_streams) = Max(0, r)

\* C10: no core operation ends in an uncaught fault: every call of the
\* projections, reach_month, required_growth_rate_to_reach and
\* reverse_required_streams completes with a returned value, reach_month on
\* the empty series of months <= 0 included.
C10_NoFault ==
    (pc = "done" /\ op # "estimate_streams_from_artist") => ret.exc = "none"

LinearDone == ForecastDone /\ op = "revenue_forecast_linear"

\* The step of the linear policy: linear_add_spotify * spotify_rate +
\* linear_add_youtube * youtube_rate.
LinearStep ==
    FAdd(FMul(float(args.linear_add_spotify), args.spotify_rate),
         FMul(float(args.linear_add_youtube), args.youtube_rate))

\* C11 as stated: under the linear policy every two consecutive months m,
\* m + 1 of the series differ by linear_add_spotify * spotify_rate +
\* linear_add_youtube * youtube_rate, the same constant for all m.
C11_LinearStep_exact ==
    LinearDone =>
        \A m \in 1..(Len(ret.v.rows) - 1) :
            FSub(ret.v.rows[m + 1].Revenue, ret.v.rows[m].Revenue)
              = LinearStep

\* C11 (amended): under the linear policy the revenues of every two
\* consecutive months m, m + 1 differ by linear_add_spotify * spotify_rate +
\* linear_add_youtube * youtube_rate within the tolerance, relative to the
\* revenues: each revenue is computed from the stream counts and rounded, so
\* the difference is not the same float for all m.
C11_LinearStep ==
    LinearDone =>
        \A m \in 1..(Len(ret.v.rows) - 1) :
            Near(FSub(ret.v.rows[m + 1].Revenue, ret.v.rows[m].Revenue),
                 LinearStep,
                 FMax(FAbs(ret.v.rows[m + 1].Revenue),
                      FAbs(ret.v.rows[m].Revenue)))

\* One Spotify stream at rate 0.3, one more each month, YouTube constant:
\* Spotify earns 0.3, 0.6, 0.8999999999999999, so the first difference is
\* the step 0.3 and the second is not.
C11_Witness ==
    /\ LinearDone
    /\ args.months >= 3
    /\ args.spotify_streams = PyInt(1)
    /\ args.youtube_streams = PyInt(0)
    /\ args.linear_add_spotify = PyInt(1)
    /\ args.linear_add_youtube = PyInt(0)
    /\ args.spotify_rate = Decimal(3, 10)
    /\ LinearStep = Decimal(3, 10)
    /\ ret.v.rows[3].Revenue = FPred(Decimal(9, 10))
    /\ FSub(ret.v.rows[2].Revenue, ret.v.rows[1].Revenue) = LinearStep
    /\ FSub(ret.v.rows[3].Revenue, ret.v.rows[2].Revenue) # LinearStep

\* C12: under the compound policy with growth percentage > 0 and
\* non-negative rates and initial stream counts, the series is
\* non-decreasing month over month: both stream counts are multiplied by
\* 1 + pct/100 after each point.
C12_CompoundMonotone ==
    (ForecastDone /\ op = "revenue_forecast_compound"
       /\ FGt(float(args.growth_rate_pct), Zero)) =>
        \A m \in 1..(Len(ret.v.rows) - 1) :
            FGe(ret.v.rows[m + 1].Revenue, ret.v.rows[m].Revenue)

\* 5 percent growth from one Spotify stream at rate 0.3: the revenue grows
\* from 0.3 in each of three months.
C12_Witness ==
    /\ ForecastDone
    /\ op = "revenue_forecast_compound"
    /\ args.growth_rate_pct = PyInt(5)
    /\ args.months >= 3
    /\ args.spotify_streams = PyInt(1)
    /\ args.youtube_streams = PyInt(0)
    /\ ret.v.rows[1].Revenue = Decimal(3, 10)
    /\ ret.v.rows[2].Revenue = FMul(Decimal(105, 100), Decimal(3, 10))
    /\ FGt(ret.v.rows[2].Revenue, ret.v.rows[1].Revenue)
    /\ FGt(ret.v.rows[3].Revenue, ret.v.rows[2].Revenue)

\* The steps that call the synchronisation.
SessionOps == {"page", "sync_revenue_defaults_from_selected_artist"}

DefaultKeys ==
    {"spotify_rate", "youtube_rate", "growth_rate", "months",
     "linear_add_spotify", "linear_add_youtube", "target_income"}

\* The session state the synchronisation of a step is called on: the state
\* before the step with, in a run of the page, the selection saved.
CalledOn ==
    IF op' = "sync_revenue_defaults_from_selected_artist"
    THEN session_state
    ELSE setitem(session_state, "selected_artist", Selection(args'.artist))

\* The key of the selection of session state b, "" when there is none.
SelectedKey(b) ==
    IF "selected_artist" \in DOMAIN b
    THEN get(b["selected_artist"], "key", "")
    ELSE ""

\* The session `a` is the session `b` with the streams overwritten by the
\* estimate `est`, the key recorded, and the selection and every default
\* that was present in `b` as they were.
SyncedFrom(b, a, key, est) ==
    /\ a["spotify_streams"] = IntValue(est.spotify_streams)
    /\ a["youtube_streams"] = IntValue(est.youtube_streams)
    /\ a["_last_artist_key_for_revenue"] = key
    /\ a["selected_artist"] = b["selected_artist"]
    /\ \A k \in DefaultKeys \cap DOMAIN b : a[k] = b[k]
    /\ DOMAIN a = (DOMAIN b) \cup DefaultKeys \cup
           {"spotify_streams", "youtube_streams",
            "_last_artist_key_for_revenue"}

\* C13: across any sequence of runs of the page and artist selections, the
\* synchronisation changes the session state only when the key of the
\* selected artist is non-empty and differs from the last synced key.  Then
\* it overwrites spotify_streams and youtube_streams with the estimator's
\* values, records the key as last synced and leaves the selection and every
\* rate, growth_rate, months, linear_add_* and target_income that is already
\* present untouched.  When the key equals the last synced key, or no artist
\* or key is set, the whole session state is unchanged, so that stream
\* counts the user edited survive the runs for the same artist.
C13_SyncFrame ==
    [][op' \in SessionOps =>
         LET b == CalledOn
             key == SelectedKey(b)
         IN  IF key # "" /\ key # get(b, "_last_artist_key_for_revenue", "")
             THEN SyncedFrom(b, session_state', key,
                             EstimateCall(
                                 b["selected_artist"].popularity,
                                 b["selected_artist"].followers).v)
             ELSE session_state' = b]_vars

\* A run of the page for artist a1 with 200250 followers has overwritten the
\* streams with the estimate (21026, 10513) and recorded the key, while the
\* Spotify rate the user set to 0.31 and the growth default 7 of the demo
\* artist, synced earlier, are as they were.
C13_Witness ==
    /\ op = "page"
    /\ args.artist = [id |-> "a1", popularity |-> 25, followers |-> 200250]
    /\ session_state["_last_artist_key_for_revenue"] = "a1|200250|25"
    /\ session_state["selected_artist"].key = "a1|200250|25"
    /\ session_state["spotify_streams"] = 21026
    /\ session_state["youtube_streams"] = 10513
    /\ session_state["spotify_rate"] = Decimal(31, 100)
    /\ session_state["growth_rate"] = 7

\* The user has raised the Spotify streams of the demo artist from the
\* estimate 187654 to 197654 and the page has run again for the same artist:
\* the edit is still there.
C13_EditSurvives ==
    /\ op = "page"
    /\ args.artist.id = "demo"
    /\ session_state["_last_artist_key_for_revenue"] = "demo|1234567|72"
    /\ session_state["selected_artist"].key = "demo|1234567|72"
    /\ session_state["spotify_streams"] = 197654
    /\ session_state["youtube_streams"] = 129105

\* The user has raised the Spotify streams of the demo artist and, before
\* the run this started reached line 460, the duration from the default 12
\* to 13: both values are stored and the run has not reached line 460.
C13_StoredNotRun ==
    /\ op = "widget"
    /\ pc = "rerun"
    /\ args.key = "months"
    /\ session_state["months"] = 13
    /\ session_state["spotify_streams"] = 197654
    /\ session_state["_last_artist_key_for_revenue"] = "demo|1234567|72"

=============================================================================
